---- MODULE Spec2Model ----
(***************************************************************************)
(* Model of backend/src/models/cores.rs of retronomicon: the Core model's  *)
(* composite listing (list_with_teams_and_releases), the single lookup     *)
(* (get_with_owner_and_systems) and the two-statement create.              *)
(*                                                                         *)
(* Tables are sequences of rows in heap (insertion) order; a query without *)
(* ORDER BY returns its rows in nested-loop order over those sequences.    *)
(* An Option<T> is a sequence of length 0 (None / SQL NULL) or 1 (Some).   *)
(* Columns that no condition of the code reads (name, description,         *)
(* metadata, links) are left out of the rows.                              *)
(***************************************************************************)
EXTENDS Integers, Sequences, FiniteSets, TLC

\* ---- bounds of the model ----
NumTeams == 2
NumPlatforms == 2
NumSystems == 2
MaxCores == 2
MaxReleases == 2
MaxDate == 2
MaxPage == 1
MaxLimit == 2

VARIABLES
    cores,          \* table cores
    core_systems,   \* table core_systems (junction Core-System)
    core_releases,  \* table core_releases
    list_call,      \* list_with_teams_and_releases: None, or the call with its result
    create_call,    \* create: None, or the call suspended between its two inserts
    create_ret,     \* create: None, or the outcome of the last finished call
    get_call,       \* get_with_owner_and_systems: None, or the call suspended after its first query
    get_ret         \* get_with_owner_and_systems: None, or the outcome of the last finished call

vars == <<cores, core_systems, core_releases, list_call, create_call, create_ret, get_call, get_ret>>

\* ---- Option, sequences ----
None == <<>>

Some(x) == <<x>>

Range(s) == {s[i] : i \in DOMAIN s}

Min(a, b) == IF a <= b THEN a ELSE b

RECURSIVE Concat(_)
Concat(ss) == IF ss = <<>> THEN <<>> ELSE Head(ss) \o Concat(Tail(ss))

FlatMap(s, F(_)) == Concat([i \in 1..Len(s) |-> F(s[i])])

Map(s, F(_)) == [i \in 1..Len(s) |-> F(s[i])]

\* ---- the tables this module only reads ----
teams == [i \in 1..NumTeams |-> [id |-> i]]

platforms == [i \in 1..NumPlatforms |-> [id |-> i]]

systems == [i \in 1..NumSystems |-> [id |-> i]]

TeamIds == 1..NumTeams

PlatformIds == 1..NumPlatforms

SystemIds == 1..NumSystems

\* The store as one value, so that a query can be evaluated on any store.
Db == [cores |-> cores, core_systems |-> core_systems, core_releases |-> core_releases]

\* ---- list_with_teams_and_releases ----

\* ORDER BY id DESC alone.
ReleaseOrderByIdOnly(a, b) == a.id > b.id

\* ORDER BY date_released DESC, id DESC: a sorts before b.
ReleaseOrder(a, b) ==
    \/ a.date_released > b.date_released
    \/ a.date_released = b.date_released /\ a.id > b.id

\* (SELECT id FROM core_releases WHERE cores.id = core_releases.core_id
\*   ORDER BY date_released DESC, id DESC LIMIT 1)
LatestReleaseId(db, core_id) ==
    LET own == {r \in Range(db.core_releases) : r.core_id = core_id}
    IN  IF own = {} THEN None
        ELSE Some((CHOOSE r \in own : \A o \in own \ {r} : ReleaseOrder(r, o)).id)

\* LEFT JOIN core_releases ON core_releases.id = (subquery): the matching
\* releases, or one NULL-extended row when none matches.
LeftJoinRelease(db, c) ==
    LET m == SelectSeq(db.core_releases, LAMBDA r : Some(r.id) = LatestReleaseId(db, c.id))
    IN  IF m = <<>> THEN <<None>> ELSE Map(m, LAMBDA r : Some(r))

\* LEFT JOIN platforms: a NULL-extended Platform for a NULL Release.
JoinPlatformOuter(rel) ==
    IF rel = None THEN <<[id |-> 0]>>
    ELSE SelectSeq(platforms, LAMBDA p : p.id = rel[1].platform_id)

\* INNER JOIN platforms ON platforms.id = core_releases.platform_id: a NULL
\* platform_id compares equal to nothing.
JoinPlatform(rel) ==
    IF rel = None THEN <<>>
    ELSE SelectSeq(platforms, LAMBDA p : p.id = rel[1].platform_id)

\* INNER JOIN core_systems (ON core_systems.core_id = cores.id)
\* INNER JOIN systems ON systems.id = core_systems.system_id
JoinSystems(db, c) ==
    FlatMap(SelectSeq(db.core_systems, LAMBDA cs : cs.core_id = c.id),
            LAMBDA cs : Map(SelectSeq(systems, LAMBDA s : s.id = cs.system_id),
                            LAMBDA s : [core_system |-> cs, system |-> s]))

\* The join of lines 105-129, one row per matching combination.
JoinRows(db) ==
    FlatMap(db.cores, LAMBDA c :
      FlatMap(SelectSeq(teams, LAMBDA t : t.id = c.owner_team_id), LAMBDA t :
        FlatMap(LeftJoinRelease(db, c), LAMBDA rel :
          FlatMap(JoinPlatform(rel), LAMBDA p :
            Map(JoinSystems(db, c), LAMBDA j :
              [core |-> c, team |-> t, release |-> rel, platform |-> p,
               core_system |-> j.core_system, system |-> j.system])))))

FilterPlatform(q, platform) ==
    IF platform = None THEN q
    ELSE SelectSeq(q, LAMBDA r : r.platform.id = platform[1])

FilterSystem(q, system) ==
    IF system = None THEN q
    ELSE SelectSeq(q, LAMBDA r : r.system.id = system[1])

\* The team filter on cores::id in place of teams::id.
FilterTeamByCoreId(q, team) ==
    IF team = None THEN q
    ELSE SelectSeq(q, LAMBDA r : r.core.id = team[1])

FilterTeam(q, team) ==
    IF team = None THEN q
    ELSE SelectSeq(q, LAMBDA r : r.team.id = team[1])

\* The date filter with .le in place of .ge.
FilterReleaseDateLe(q, release_date_ge) ==
    IF release_date_ge = None THEN q
    ELSE SelectSeq(q, LAMBDA r : r.release # None
                                 /\ r.release[1].date_released <= release_date_ge[1])

FilterReleaseDate(q, release_date_ge) ==
    IF release_date_ge = None THEN q
    ELSE SelectSeq(q, LAMBDA r : r.release # None
                                 /\ r.release[1].date_released >= release_date_ge[1])

\* The four `if let Some(..)` of lines 131-145, in the order of the code.
ApplyFilters(q, f) ==
    FilterReleaseDate(FilterTeam(FilterSystem(FilterPlatform(q, f.platform), f.system), f.team),
                      f.release_date_ge)

\* .select((cores::all_columns, teams::all_columns, Option<CoreRelease>, platforms::all_columns))
SelectColumns(q) ==
    Map(q, LAMBDA r : [core |-> r.core, team |-> r.team, release |-> r.release,
                       platform |-> r.platform])

\* .offset(page * limit).limit(limit)
OffsetLimit(q, page, limit) ==
    SubSeq(q, page * limit + 1, Min(Len(q), page * limit + limit))

\* `cores` of lines 147-162: the page of the primary query.
PrimaryQuery(db, page, limit, f) ==
    OffsetLimit(SelectColumns(ApplyFilters(JoinRows(db), f)), page, limit)

\* `all_cores` of lines 164-167.
AllCores(db) == db.cores

\* CoreSystems::belonging_to(parents).inner_join(systems): the junction rows
\* whose core_id is the id of one of the parents, each with its System.
BelongingTo(db, parents) ==
    LET ids == {parents[i].id : i \in DOMAIN parents}
    IN  FlatMap(SelectSeq(db.core_systems, LAMBDA cs : cs.core_id \in ids),
                LAMBDA cs : Map(SelectSeq(systems, LAMBDA s : s.id = cs.system_id),
                                LAMBDA s : [core_system |-> cs, system |-> s]))

\* diesel's grouped_by: one group per parent, in the parents' order, holding
\* the children whose foreign key is that parent's id.
GroupedBy(children, parents) ==
    [i \in 1..Len(parents) |->
        Map(SelectSeq(children, LAMBDA ch : ch.core_system.core_id = parents[i].id),
            LAMBDA ch : ch.system)]

\* Lines 169-186: fetch the page's systems, group them by all_cores, zip the
\* groups with the page (zip stops at the shorter of the two).
ZipGroups(page_rows, all_cores, children) ==
    LET groups == GroupedBy(children, all_cores)
    IN  [i \in 1..Min(Len(groups), Len(page_rows)) |->
            [core |-> page_rows[i].core, systems |-> groups[i], team |-> page_rows[i].team,
             release |-> page_rows[i].release, platform |-> page_rows[i].platform]]

\* Lines 164-188: what the function does with the page of the primary query.
AttachSystems(db, page_rows) ==
    LET all_cores == AllCores(db)
        children  == BelongingTo(db, Map(page_rows, LAMBDA r : r.core))
    IN  ZipGroups(page_rows, all_cores, children)

ListWithTeamsAndReleases(db, page, limit, f) ==
    AttachSystems(db, PrimaryQuery(db, page, limit, f))

OptionOf(S) == {None} \cup {Some(x) : x \in S}

\* The filter arguments of a call. Init draws the stores symmetrically in the
\* ids of the platforms, systems and teams, so the first row of each table
\* stands for any of them; the date threshold ranges over every date.
Filters ==
    [platform : OptionOf({platforms[1].id}), system : OptionOf({systems[1].id}),
     team : OptionOf({teams[1].id}), release_date_ge : OptionOf(1..MaxDate)]

NoFilters == [platform |-> None, system |-> None, team |-> None, release_date_ge |-> None]

\* ---- initial stores ----
SubsetSeq(S) == {s \in UNION {[1..n -> S] : n \in 0..Cardinality(S)} :
                    \A i, j \in DOMAIN s : i < j => s[i] < s[j]}

InitCoresTables ==
    {cs \in UNION {[1..n -> [id : 1..MaxCores, slug : 1..MaxCores, owner_team_id : TeamIds]]
                     : n \in 1..MaxCores} :
        \A i \in DOMAIN cs : cs[i].id = i /\ cs[i].slug = i}

InitReleasesTables(n) ==
    {rs \in UNION {[1..k -> [id : 1..MaxReleases, core_id : 1..n, platform_id : PlatformIds,
                             date_released : 1..MaxDate]] : k \in 0..MaxReleases} :
        \A i \in DOMAIN rs : rs[i].id = i}

InitSystemsTables(n) ==
    {Concat([c \in 1..n |-> Map(pick[c], LAMBDA s : [core_id |-> c, system_id |-> s])]) :
        pick \in [1..n -> SubsetSeq(SystemIds)]}

Init ==
    /\ cores \in InitCoresTables
    /\ core_systems \in InitSystemsTables(Len(cores))
    /\ core_releases \in InitReleasesTables(Len(cores))
    /\ list_call = None
    /\ create_call = None
    /\ create_ret = None
    /\ get_call = None
    /\ get_ret = None

\* A call of list_with_teams_and_releases, run to its return.
List(page, limit, f) ==
    /\ list_call = None
    /\ LET page_rows == PrimaryQuery(Db, page, limit, f)
       IN  list_call' = Some([page |-> page, limit |-> limit, filters |-> f,
                              rows |-> page_rows, out |-> AttachSystems(Db, page_rows)])
    /\ UNCHANGED <<cores, core_systems, core_releases, create_call, create_ret, get_call, get_ret>>

\* The caller takes the result; the next request may start.
ListReturn ==
    /\ list_call # None
    /\ list_call' = None
    /\ UNCHANGED <<cores, core_systems, core_releases, create_call, create_ret, get_call, get_ret>>

Next ==
    \/ \E page \in 0..MaxPage, limit \in 1..MaxLimit, f \in Filters : List(page, limit, f)
    \/ ListReturn

\* The read path: every initial store, every call of the listing.
Spec == Init /\ [][Next]_vars

\* ---- create ----

\* The serial primary key of the next row of cores (rows are never deleted).
NextCoreId(db) == Len(db.cores) + 1

\* The rows of the batch insert of lines 213-225.
JunctionRows(core, system_ids) ==
    Map(system_ids, LAMBDA system_id : [core_id |-> core.id, system_id |-> system_id])

\* The batch insert is one statement: it fails as a whole on a dangling
\* system_id (foreign key) or on a repeated (core_id, system_id) (primary key).
JunctionInsertFails(db, rows) ==
    \/ \E i \in DOMAIN rows : rows[i].system_id \notin SystemIds
    \/ \E i, j \in DOMAIN rows : i # j /\ rows[i] = rows[j]
    \/ \E i \in DOMAIN rows : rows[i] \in Range(db.core_systems)

\* Lines 201-212: the first statement, INSERT INTO cores ... RETURNING *.
\* A slug already present violates the unique index and `?` returns the error.
CreateInsertCore(slug, owner_team, system_ids) ==
    /\ create_call = None
    /\ Len(cores) < MaxCores
    /\ IF \E i \in DOMAIN cores : cores[i].slug = slug
       THEN /\ create_ret' = Some([ok |-> FALSE, error |-> "unique_slug", before |-> cores,
                                   systems |-> system_ids, core |-> None])
            /\ UNCHANGED <<cores, create_call>>
       ELSE LET result == [id |-> NextCoreId(Db), slug |-> slug, owner_team_id |-> owner_team]
            IN  /\ cores' = Append(cores, result)
                /\ create_call' = Some([result |-> result, systems |-> system_ids,
                                        before |-> cores])
                /\ create_ret' = None
    /\ UNCHANGED <<core_systems, core_releases, list_call, get_call, get_ret>>

\* Lines 213-228: the second statement, the batch INSERT INTO core_systems,
\* on the same connection and outside any transaction; `?` returns its error.
CreateInsertSystems ==
    /\ create_call # None
    /\ LET call == create_call[1]
           rows == JunctionRows(call.result, call.systems)
       IN  IF JunctionInsertFails(Db, rows)
           THEN /\ create_ret' = Some([ok |-> FALSE, error |-> "junction", before |-> call.before,
                                       systems |-> call.systems, core |-> Some(call.result)])
                /\ UNCHANGED core_systems
           ELSE /\ core_systems' = core_systems \o rows
                /\ create_ret' = Some([ok |-> TRUE, error |-> "", before |-> call.before,
                                       systems |-> call.systems, core |-> Some(call.result)])
    /\ create_call' = None
    /\ UNCHANGED <<cores, core_releases, list_call, get_call, get_ret>>

\* ---- get_with_owner_and_systems ----
Identities == {<<"id", n>> : n \in 1..MaxCores} \cup {<<"slug", n>> : n \in 1..MaxCores}

\* Lines 235-247: cores INNER JOIN teams, filtered by id or by slug, .first().optional()
FindCore(db, identity) ==
    LET q == FlatMap(db.cores, LAMBDA c :
                Map(SelectSeq(teams, LAMBDA t : t.id = c.owner_team_id),
                    LAMBDA t : [core |-> c, team |-> t]))
        m == IF identity[1] = "id"
             THEN SelectSeq(q, LAMBDA r : r.core.id = identity[2])
             ELSE SelectSeq(q, LAMBDA r : r.core.slug = identity[2])
    IN  IF m = <<>> THEN None ELSE Some(m[1])

\* Lines 254-259: the systems of one core.
SystemsOfCore(db, core) ==
    FlatMap(SelectSeq(db.core_systems, LAMBDA cs : cs.core_id = core.id),
            LAMBDA cs : SelectSeq(systems, LAMBDA s : s.id = cs.system_id))

\* Lines 235-252: the first query; no row is Ok(None).
GetFindCore(identity) ==
    /\ get_call = None
    /\ LET results == FindCore(Db, identity)
       IN  IF results = None
           THEN get_ret' = Some(None) /\ UNCHANGED get_call
           ELSE get_call' = results /\ get_ret' = None
    /\ UNCHANGED <<cores, core_systems, core_releases, list_call, create_call, create_ret>>

\* Lines 254-261: the second query and the return.
GetLoadSystems ==
    /\ get_call # None
    /\ get_ret' = Some(Some([core |-> get_call[1].core, team |-> get_call[1].team,
                             systems |-> SystemsOfCore(Db, get_call[1].core)]))
    /\ get_call' = None
    /\ UNCHANGED <<cores, core_systems, core_releases, list_call, create_call, create_ret>>

\* The ids a caller of create may hold: the systems, and one deleted since.
SystemArgs == UNION {[1..n -> 1..(NumSystems + 1)] : n \in 0..NumSystems}

\* A fresh database.
InitMut ==
    /\ cores = <<>>
    /\ core_systems = <<>>
    /\ core_releases = <<>>
    /\ list_call = None
    /\ create_call = None
    /\ create_ret = None
    /\ get_call = None
    /\ get_ret = None

NextMut ==
    \/ \E slug \in 1..MaxCores, owner_team \in TeamIds, system_ids \in SystemArgs :
          CreateInsertCore(slug, owner_team, system_ids)
    \/ CreateInsertSystems
    \/ \E identity \in Identities : GetFindCore(identity)
    \/ GetLoadSystems

\* The mutation path and its reader, statement by statement: every await of
\* create and of get_with_owner_and_systems is a point where the other runs.
SpecMut == InitMut /\ [][NextMut]_vars


\* ---- what the claims speak of ----

\* The Systems a Core is associated with in the store.
SystemsOf(db, core) ==
    {sy \in Range(systems) :
        [core_id |-> core.id, system_id |-> sy.id] \in Range(db.core_systems)}

ReleasesOf(db, core) == {r \in Range(db.core_releases) : r.core_id = core.id}

\* r is a Release of the greatest date_released among rs, of the greatest id
\* among those of that date.
IsLatest(r, rs) ==
    /\ r \in rs
    /\ \A o \in rs : o.date_released <= r.date_released
    /\ \A o \in rs : o.date_released = r.date_released => o.id <= r.id

\* The listing without pagination: one page that holds every row.
Unpaged(db, f) == ListWithTeamsAndReleases(db, 0, Len(JoinRows(db)), f)

\* Pages 0, 1, 2, ... of the listing, concatenated, up to the first page past the rows.
Pages(db, limit, f) ==
    Concat([p \in 1..(Len(JoinRows(db)) + 1) |-> ListWithTeamsAndReleases(db, p - 1, limit, f)])

\* The rows the primary query selects when it is not paginated.
Selected(db, f) == SelectColumns(ApplyFilters(JoinRows(db), f))

\* A Core, with its latest Release, satisfies every supplied filter.
Satisfies(db, row, f) ==
    /\ f.team # None => row.core.owner_team_id = f.team[1]
    /\ f.platform # None => row.release # None /\ row.release[1].platform_id = f.platform[1]
    /\ f.system # None => \E sy \in SystemsOf(db, row.core) : sy.id = f.system[1]
    /\ f.release_date_ge # None =>
          row.release # None /\ row.release[1].date_released >= f.release_date_ge[1]

Only(field, f) == [NoFilters EXCEPT ![field] = f[field]]

\* The store without the Releases that are not the latest of their Core.
LatestOnly(db) ==
    [db EXCEPT !.core_releases =
        SelectSeq(db.core_releases, LAMBDA r : Some(r.id) = LatestReleaseId(db, r.core_id))]

\* ---- claims ----

\* C1: when the junction insert of create fails, the table cores is what it
\* was before the call: no new Core row persists.
C1_CreateAtomicOnFailure ==
    (create_ret # None /\ create_ret[1].error = "junction") => cores = create_ret[1].before

\* C2: a reader never sees the Core a create has inserted without all of the
\* junction rows of that create: while the create is between its two inserts
\* no lookup returns its Core, unless with every System the call asked for.
C2_NoPartialWriteObserved ==
    (create_call # None /\ get_ret # None /\ get_ret[1] # None
        /\ get_ret[1][1].core.id = create_call[1].result.id)
    => {sy.id : sy \in Range(get_ret[1][1].systems)} = Range(create_call[1].systems)

\* C3: the groups are computed over the page's own Cores, so the group of
\* every record is the set of Systems of that record's own Core.
C3_GroupsBelongToOwnCore ==
    list_call # None =>
        \A i \in DOMAIN list_call[1].out :
            Range(list_call[1].out[i].systems) = SystemsOf(Db, list_call[1].out[i].core)

\* C4: a Core without Systems that qualifies for the page (no filters, a page
\* that holds every Core, and a Release, see C10) has a record, with the empty group.
C4_CoreWithoutSystemsKept ==
    (list_call # None /\ list_call[1].filters = NoFilters /\ list_call[1].page = 0
        /\ list_call[1].limit >= Len(cores))
    => \A c \in Range(cores) :
          (SystemsOf(Db, c) = {} /\ ReleasesOf(Db, c) # {})
          => \E i \in DOMAIN list_call[1].out :
                list_call[1].out[i].core = c /\ list_call[1].out[i].systems = <<>>

\* C5: without filters a page has at most limit records, the pages in order
\* make up the unpaged listing, and no Core has two records in it.
C5_PagesPartitionUnpaged ==
    (list_call # None /\ list_call[1].filters = NoFilters)
    => /\ Len(list_call[1].out) <= list_call[1].limit
       /\ Pages(Db, list_call[1].limit, NoFilters) = Unpaged(Db, NoFilters)
       /\ \A i, j \in DOMAIN Unpaged(Db, NoFilters) :
             i # j => Unpaged(Db, NoFilters)[i].core # Unpaged(Db, NoFilters)[j].core

\* C6: the listing has one record per row of the primary query, in its
\* order, with the Core, Team, Release and Platform of that row.
C6_OneRecordPerPrimaryRow ==
    list_call # None =>
        /\ Len(list_call[1].out) = Len(list_call[1].rows)
        /\ \A i \in DOMAIN list_call[1].out :
              /\ i \in DOMAIN list_call[1].rows
              /\ list_call[1].out[i].core = list_call[1].rows[i].core
              /\ list_call[1].out[i].team = list_call[1].rows[i].team
              /\ list_call[1].out[i].release = list_call[1].rows[i].release
              /\ list_call[1].out[i].platform = list_call[1].rows[i].platform

\* C7: the Release of a record whose Core has Releases is that Core's own
\* Release of the greatest date_released, of the greatest id among equal dates.
C7_LatestReleaseAttached ==
    list_call # None =>
        \A i \in DOMAIN list_call[1].out :
            LET rec == list_call[1].out[i]
            IN  ReleasesOf(Db, rec.core) # {} =>
                    /\ Len(rec.release) = 1
                    /\ rec.release[1].core_id = rec.core.id
                    /\ IsLatest(rec.release[1], ReleasesOf(Db, rec.core))

\* C7, witness: a record whose Core has a second, older Release of a greater
\* id than the Release attached (the later date wins over the greater id).
C7_Witness ==
    /\ list_call # None
    /\ \E i \in DOMAIN list_call[1].out :
          \E o \in ReleasesOf(Db, list_call[1].out[i].core) :
             /\ o.id > list_call[1].out[i].release[1].id
             /\ o.date_released < list_call[1].out[i].release[1].date_released

\* C8: with a minimum release date t, every record carries the latest Release
\* of its Core, dated t or later, no Core whose latest Release is older than t
\* has a record, and the listing is the listing of the store without the
\* Releases that are not the latest of their Core.
C8_MinDateOnLatestOnly ==
    (list_call # None /\ list_call[1].filters.release_date_ge # None) =>
        LET call == list_call[1]
            t == call.filters.release_date_ge[1]
        IN  /\ \A i \in DOMAIN call.out :
                  /\ Len(call.out[i].release) = 1
                  /\ IsLatest(call.out[i].release[1], ReleasesOf(Db, call.out[i].core))
                  /\ call.out[i].release[1].date_released >= t
            /\ \A c \in Range(cores) :
                  (\E r \in ReleasesOf(Db, c) :
                        IsLatest(r, ReleasesOf(Db, c)) /\ r.date_released < t)
                  => \A i \in DOMAIN call.out : call.out[i].core # c
            /\ call.out = ListWithTeamsAndReleases(LatestOnly(Db), call.page, call.limit,
                                                   call.filters)

\* C8, witness: a call with a threshold that returns a record while a Core
\* with Systems, whose only Release is older than the threshold, has none.
C8_Witness ==
    /\ list_call # None
    /\ list_call[1].filters.release_date_ge # None
    /\ list_call[1].filters = Only("release_date_ge", list_call[1].filters)
    /\ list_call[1].out # <<>>
    /\ \E c \in Range(cores) :
          /\ SystemsOf(Db, c) # {}
          /\ Cardinality(ReleasesOf(Db, c)) = 1
          /\ \A r \in ReleasesOf(Db, c) :
                r.date_released < list_call[1].filters.release_date_ge[1]
          /\ \A i \in DOMAIN list_call[1].out : list_call[1].out[i].core # c

C10_ReleaselessCoresDiscarded ==
    list_call # None =>
        /\ \A i \in DOMAIN list_call[1].out :
              /\ Len(list_call[1].out[i].release) = 1
              /\ list_call[1].out[i].release[1].core_id = list_call[1].out[i].core.id
              /\ list_call[1].out[i].release[1].platform_id = list_call[1].out[i].platform.id
        /\ \A c \in Range(cores) :
              ReleasesOf(Db, c) = {} =>
                  \A i \in DOMAIN list_call[1].out : list_call[1].out[i].core # c

\* C10, witness: an unfiltered first page with a record, of a store where a
\* Core with Systems and without Releases precedes the Core of that record.
C10_Witness ==
    /\ list_call # None
    /\ list_call[1].filters = NoFilters
    /\ list_call[1].page = 0
    /\ list_call[1].out # <<>>
    /\ \E k \in DOMAIN cores :
          /\ ReleasesOf(Db, cores[k]) = {}
          /\ SystemsOf(Db, cores[k]) # {}
          /\ list_call[1].out[1].core.id > cores[k].id

====
